---- MODULE Spec2Model ----
(***************************************************************************)
(* Model of the Interpreter class of src/libs/interpreter_lib.py: the      *)
(* construction of the interpreter (initialize, initialize_client,         *)
(* initialize_mode) and the session loop of interpreter_main, one action   *)
(* per stretch of the loop body between two interactions with the outside  *)
(* world (terminal input, file system, completion transport, runners,      *)
(* package installer, resource opener, history store).                     *)
(*                                                                         *)
(* Python strings are sequences of one-character strings, so lower() and   *)
(* the `in` substring test are computed and not assumed.  Python's None is *)
(* the value None below.                                                   *)
(***************************************************************************)
EXTENDS Integers, Sequences, FiniteSets, TLC

\* Number of tasks read from the terminal in one session (bounds the loop).
MaxTurns == 2

(***************************************************************************)
(* Strings                                                                 *)
(***************************************************************************)
None == <<"<None>">>

Truthy(v) == v # None /\ v # <<>>

UpperCase == <<"A", "B", "C", "D", "E", "F", "G", "H", "I", "J", "K", "L", "M", "N", "O", "P", "Q", "R", "S", "T", "U", "V", "W", "X", "Y", "Z">>

LowerCase == <<"a", "b", "c", "d", "e", "f", "g", "h", "i", "j", "k", "l", "m", "n", "o", "p", "q", "r", "s", "t", "u", "v", "w", "x", "y", "z">>

\* str.lower() on one character
LowerChar(c) ==
    IF \E i \in 1..Len(UpperCase) : UpperCase[i] = c
    THEN LowerCase[CHOOSE i \in 1..Len(UpperCase) : UpperCase[i] = c]
    ELSE c

\* str.lower()
Lower(s) == [i \in 1..Len(s) |-> LowerChar(s[i])]

\* Python's `sub in s` on strings
Contains(sub, s) ==
    \E i \in 0..(Len(s) - Len(sub)) : SubSeq(s, i + 1, i + Len(sub)) = sub

\* str.find(sub, start) with 0-based positions; -1 when not found
Find(sub, s, start) ==
    LET hits == {i \in start..(Len(s) - Len(sub)) : SubSeq(s, i + 1, i + Len(sub)) = sub}
    IN  IF hits = {} THEN -1 ELSE CHOOSE i \in hits : \A j \in hits : i <= j

(***************************************************************************)
(* String literals of the source                                           *)
(***************************************************************************)
\* the character ` (a string holding it does not pass the parser)
backtick == "<backtick>"

s_exit == <<"e", "x", "i", "t">>

s_quit == <<"q", "u", "i", "t">>

s_y == <<"y">>

s_python == <<"p", "y", "t", "h", "o", "n">>

s_javascript == <<"j", "a", "v", "a", "s", "c", "r", "i", "p", "t">>

s_applescript == <<"a", "p", "p", "l", "e", "s", "c", "r", "i", "p", "t">>

s_bash == <<"b", "a", "s", "h">>

s_powershell == <<"p", "o", "w", "e", "r", "s", "h", "e", "l", "l">>

s_macos == <<"m", "a", "c", "o", "s">>

s_linux == <<"l", "i", "n", "u", "x">>

s_windows == <<"w", "i", "n", "d", "o", "w", "s">>

s_code == <<"c", "o", "d", "e">>

s_script == <<"s", "c", "r", "i", "p", "t">>

s_command == <<"c", "o", "m", "m", "a", "n", "d">>

s_graph == <<"g", "r", "a", "p", "h">>

s_chart == <<"c", "h", "a", "r", "t">>

s_plot == <<"p", "l", "o", "t">>

s_table == <<"t", "a", "b", "l", "e">>

code_prefix == <<"G", "e", "n", "e", "r", "a", "t", "e", " ", "t", "h", "e", " ", "c", "o", "d", "e", " ", "i", "n", " ">>

code_middle == <<" ", "l", "a", "n", "g", "u", "a", "g", "e", " ", "f", "o", "r", " ", "t", "h", "i", "s", " ", "t", "a", "s", "k", " ", "'">>

code_os == <<" ", "f", "o", "r", " ", "O", "p", "e", "r", "a", "t", "i", "n", "g", " ", "S", "y", "s", "t", "e", "m", ":", " ">>

prompt_end == <<"'", ".">>

script_prefix == <<"\n", "G", "e", "n", "e", "r", "a", "t", "e", " ">>

script_middle == <<" ", "f", "o", "r", " ", "t", "h", "i", "s", " ", "p", "r", "o", "m", "p", "t", " ", "a", "n", "d", " ", "m", "a", "k", "e", " ", "t", "h", "i", "s", " ", "s", "c", "r", "i", "p", "t", " ", "e", "a", "s", "y", " ", "t", "o", " ", "r", "e", "a", "d", " ", "a", "n", "d", " ", "u", "n", "d", "e", "r", "s", "t", "a", "n", "d", " ", "f", "o", "r", " ", "t", "h", "i", "s", " ", "t", "a", "s", "k", " ", "'">>

script_os == <<" ", "f", "o", "r", " ", "O", "p", "e", "r", "a", "t", "i", "n", "g", " ", "S", "y", "s", "t", "e", "m", " ", "i", "s", " ">>

command_prefix == <<"G", "e", "n", "e", "r", "a", "t", "e", " ", "t", "h", "e", " ", "s", "i", "n", "g", "l", "e", " ", "t", "e", "r", "m", "i", "n", "a", "l", " ", "c", "o", "m", "m", "a", "n", "d", " ", "f", "o", "r", " ", "t", "h", "i", "s", " ", "t", "a", "s", "k", " ", "'">>

type_apple == <<"A", "p", "p", "l", "e", " ", "s", "c", "r", "i", "p", "t">>

type_bash == <<"B", "a", "s", "h", " ", "S", "h", "e", "l", "l", " ", "s", "c", "r", "i", "p", "t">>

type_powershell == <<"P", "o", "w", "e", "r", "s", "h", "e", "l", "l", " ", "s", "c", "r", "i", "p", "t">>

type_script == <<"s", "c", "r", "i", "p", "t">>

graph_python == <<"\n", "u", "s", "i", "n", "g", " ", "P", "y", "t", "h", "o", "n", " ", "u", "s", "e", " ", "M", "a", "t", "p", "l", "o", "t", "l", "i", "b", " ", "s", "a", "v", "e", " ", "t", "h", "e", " ", "g", "r", "a", "p", "h", " ", "i", "n", " ", "f", "i", "l", "e", " ", "c", "a", "l", "l", "e", "d", " ", "'", "g", "r", "a", "p", "h", ".", "p", "n", "g", "'">>

graph_javascript == <<"\n", "u", "s", "i", "n", "g", " ", "J", "a", "v", "a", "S", "c", "r", "i", "p", "t", " ", "u", "s", "e", " ", "C", "h", "a", "r", "t", ".", "j", "s", " ", "s", "a", "v", "e", " ", "t", "h", "e", " ", "g", "r", "a", "p", "h", " ", "i", "n", " ", "f", "i", "l", "e", " ", "c", "a", "l", "l", "e", "d", " ", "'", "g", "r", "a", "p", "h", ".", "p", "n", "g", "'">>

chart_python == <<"\n", "u", "s", "i", "n", "g", " ", "P", "y", "t", "h", "o", "n", " ", "u", "s", "e", " ", "P", "l", "o", "t", "l", "y", " ", "s", "a", "v", "e", " ", "t", "h", "e", " ", "c", "h", "a", "r", "t", " ", "i", "n", " ", "f", "i", "l", "e", " ", "c", "a", "l", "l", "e", "d", " ", "'", "c", "h", "a", "r", "t", ".", "p", "n", "g", "'">>

chart_javascript == <<"\n", "u", "s", "i", "n", "g", " ", "J", "a", "v", "a", "S", "c", "r", "i", "p", "t", " ", "u", "s", "e", " ", "C", "h", "a", "r", "t", ".", "j", "s", " ", "s", "a", "v", "e", " ", "t", "h", "e", " ", "c", "h", "a", "r", "t", " ", "i", "n", " ", "f", "i", "l", "e", " ", "c", "a", "l", "l", "e", "d", " ", "'", "c", "h", "a", "r", "t", ".", "p", "n", "g", "'">>

table_python == <<"\n", "u", "s", "i", "n", "g", " ", "P", "y", "t", "h", "o", "n", " ", "u", "s", "e", " ", "P", "a", "n", "d", "a", "s", " ", "s", "a", "v", "e", " ", "t", "h", "e", " ", "t", "a", "b", "l", "e", " ", "i", "n", " ", "f", "i", "l", "e", " ", "c", "a", "l", "l", "e", "d", " ", "'", "t", "a", "b", "l", "e", ".", "m", "d", "'">>

table_javascript == <<"\n", "u", "s", "i", "n", "g", " ", "J", "a", "v", "a", "S", "c", "r", "i", "p", "t", " ", "u", "s", "e", " ", "D", "a", "t", "a", "T", "a", "b", "l", "e", "s", " ", "s", "a", "v", "e", " ", "t", "h", "e", " ", "t", "a", "b", "l", "e", " ", "i", "n", " ", "f", "i", "l", "e", " ", "c", "a", "l", "l", "e", "d", " ", "'", "t", "a", "b", "l", "e", ".", "h", "t", "m", "l", "'">>

err_ModuleNotFound == <<"M", "o", "d", "u", "l", "e", "N", "o", "t", "F", "o", "u", "n", "d">>

err_ImportError == <<"I", "m", "p", "o", "r", "t", "E", "r", "r", "o", "r">>

err_NoModuleNamed == <<"N", "o", " ", "m", "o", "d", "u", "l", "e", " ", "n", "a", "m", "e", "d">>

err_CannotFindModule == <<"C", "a", "n", "n", "o", "t", " ", "f", "i", "n", "d", " ", "m", "o", "d", "u", "l", "e">>

fence == <<backtick, backtick, backtick>>

graph_png == <<"g", "r", "a", "p", "h", ".", "p", "n", "g">>

chart_png == <<"c", "h", "a", "r", "t", ".", "p", "n", "g">>

table_md == <<"t", "a", "b", "l", "e", ".", "m", "d">>

s_gpt == <<"g", "p", "t">>

s_gpt35 == <<"g", "p", "t", "-", "3", ".", "5", "-", "t", "u", "r", "b", "o">>

s_huggingface == <<"h", "u", "g", "g", "i", "n", "g", "f", "a", "c", "e", "/">>

s_hf_ == <<"h", "f", "_">>


label_Code == <<"C", "o", "d", "e">>

label_Script == <<"S", "c", "r", "i", "p", "t">>

label_Command == <<"C", "o", "m", "m", "a", "n", "d">>

ext_js == <<".", "j", "s">>

ext_py == <<".", "p", "y">>
task_exit == <<"e", "x", "i", "t">>

task_Quit == <<"Q", "u", "i", "t">>

task_ls == <<"l", "s">>

task_plot == <<"P", "l", "o", "t", " ", "x">>

task_graph == <<"g", "r", "a", "p", "h">>

task_telegraph == <<"T", "e", "l", "e", "g", "r", "a", "p", "h">>

task_chart == <<"p", "i", "e", " ", "c", "h", "a", "r", "t">>

task_table == <<"t", "a", "b", "l", "e">>

os_Linux == <<"L", "i", "n", "u", "x">>

os_macOS == <<"m", "a", "c", "O", "S">>

os_Windows == <<"W", "i", "n", "d", "o", "w", "s">>

os_BSD == <<"B", "S", "D">>

mode_chat == <<"c", "h", "a", "t">>

model_llama == <<"m", "e", "t", "a", "/", "l", "l", "a", "m", "a">>

token_good == <<"h", "f", "_", "k">>

token_bad == <<"s", "k", "_", "k">>

ans_Y == <<"Y">>

ans_n == <<"n">>

ans_yes == <<"y", "e", "s">>

text_plain == <<"d", "o", "n", "e">>

text_code == <<backtick, backtick, backtick, "x", backtick, backtick, backtick>>

text_code_y == <<backtick, backtick, backtick, "y", backtick, backtick, backtick>>

text_empty == <<backtick, backtick, backtick, backtick, backtick, backtick>>

text_open == <<backtick, backtick, backtick, "x">>

out_1 == <<"1">>

err_warn == <<"w", "a", "r", "n">>

err_lower == <<"i", "m", "p", "o", "r", "t", "e", "r", "r", "o", "r", ":", " ", "x">>

err_import == <<"I", "m", "p", "o", "r", "t", "E", "r", "r", "o", "r", ":", " ", "x">>

pkg_x == <<"x">>

(***************************************************************************)
(* Inputs: command-line arguments, terminal input and the results of the   *)
(* external collaborators                                                  *)
(***************************************************************************)
ArgModes == {s_code, s_script, s_command, None, mode_chat}

ArgLangs == {None, s_javascript}

ArgModels == {None, s_gpt35, model_llama}

\* value of HF_MODEL in the model's config file; None when the key is absent
ConfigModels == {None}

\* value of HUGGINGFACE_API_KEY; None when it is not set
Tokens == {None, token_good, token_bad}

Tasks == {task_exit, task_Quit, task_ls, task_plot}

\* tasks with and without the words the prompt augmentation looks for
PromptTasks == {task_ls, task_plot, task_graph, task_telegraph, task_chart, task_table}

OSNames == {os_Linux, os_macOS, os_Windows, os_BSD}

Answers == {ans_Y, ans_n, ans_yes}

\* what the completion transport returns: a response holding a content
\* string, or a response without the expected fields
WellFormedResponses ==
    {[choices |-> <<[message |-> [content |-> c]]>>] :
        c \in {text_plain, text_code, text_empty, text_open}}

\* a response without the key 'choices', and one whose list of choices is empty
MalformedResponses == {[error |-> err_warn], [choices |-> <<>>]}

Responses == WellFormedResponses \cup MalformedResponses

\* responses with two different code blocks, and one with an empty block
SaveResponses ==
    {[choices |-> <<[message |-> [content |-> c]]>>] :
        c \in {text_empty, text_code, text_code_y}}

\* what a runner returns: captured (stdout, stderr)
RunnerReturns == {<<o, e>> : o \in {<<>>, out_1}, e \in {<<>>, err_import}}

\* text of an exception raised by a runner
RunnerExceptions == {err_lower, err_import}

\* resource files the executed code may leave behind
CreatedFiles == {{}, {chart_png}}

\* no completion response yet
NoOutput == [unset |-> TRUE]

\* marker for a call that raises instead of returning
Raised == <<"<raise>">>

\* result of package_installer.extract_package_name
ResolverResults == {None, pkg_x, Raised}

files_to_remove == <<graph_png, chart_png, table_md>>

files_to_open == <<graph_png, chart_png, table_md>>

error_messages == {err_ModuleNotFound, err_ImportError, err_NoModuleNamed, err_CannotFindModule}

start_sep == fence

end_sep == fence

(***************************************************************************)
(* State                                                                   *)
(***************************************************************************)
VARIABLES
    pc,                   \* position of the single thread of control
    exception,            \* name of the exception that ended the program, "" if none
    args,                 \* self.args
    environment,          \* what the process finds: system message file, token, platform
    SAVE_CODE, EXECUTE_CODE, INTERPRETER_LANGUAGE, INTERPRRETER_MODEL,
    CODE_MODE, SCRIPT_MODE, COMMAND_MODE,
    history,              \* self.history
    os_name, command_mode,
    reads,                \* number of tasks read from the terminal
    task, prompt,
    output,               \* the response of the completion call of the iteration
    generated_output, extracted_code, code_output, code_error,
    files,                \* resource files present in the working directory
    store,                \* Turns written by save_history_json
    trace,                \* calls made to the outside world in the current iteration
    current_time,         \* the time stamp taken by interpreter_main
    saved                 \* the files of the directory output/, with their content

vars == <<pc, exception, args, environment, SAVE_CODE, EXECUTE_CODE, INTERPRETER_LANGUAGE,
          INTERPRRETER_MODEL, CODE_MODE, SCRIPT_MODE, COMMAND_MODE, history,
          os_name, command_mode, reads, task, prompt, output,
          generated_output, extracted_code, code_output, code_error, files, store, trace,
          current_time, saved>>

settings == <<args, environment, SAVE_CODE, EXECUTE_CODE, CODE_MODE, SCRIPT_MODE, COMMAND_MODE,
              os_name, command_mode, current_time>>

locals == <<task, prompt, output, generated_output, extracted_code, code_output, code_error>>

Event(op, arg) == [op |-> op, arg |-> arg]

\* the command lines
Arguments ==
    [mode : ArgModes, lang : ArgLangs, model : ArgModels,
     save_code : BOOLEAN, exec : BOOLEAN]

\* the surroundings of the process: whether system/system_message.txt can be
\* read, the value of HUGGINGFACE_API_KEY, the name of the platform
Environments ==
    [system_message_readable : BOOLEAN, HUGGINGFACE_API_KEY : Tokens, platform : OSNames]

\* The state when __init__ calls initialize, for a set of command lines, a set
\* of surroundings and the resource files present in the working directory.
Start(arguments, environments, present) ==
    /\ pc = "initialize"
    /\ exception = ""
    /\ args \in arguments
    /\ environment \in environments
    /\ SAVE_CODE = FALSE
    /\ EXECUTE_CODE = FALSE
    /\ INTERPRETER_LANGUAGE = None
    /\ INTERPRRETER_MODEL = None
    /\ CODE_MODE = FALSE
    /\ SCRIPT_MODE = FALSE
    /\ COMMAND_MODE = FALSE
    /\ history = <<>>
    /\ os_name = None
    /\ command_mode = None
    /\ reads = 0
    /\ task = None
    /\ prompt = None
    /\ output = NoOutput
    /\ generated_output = None
    /\ extracted_code = None
    /\ code_output = None
    /\ code_error = None
    /\ files = present
    /\ store = <<>>
    /\ trace = <<>>
    /\ current_time = None
    /\ saved = {}

\* Sessions with every command line and a valid token, on Linux, in a
\* working directory without resource files.
Init ==
    Start(Arguments,
          [system_message_readable : BOOLEAN, HUGGINGFACE_API_KEY : {token_good},
           platform : {os_Linux}],
          {})

(***************************************************************************)
(* Construction: initialize, initialize_client, initialize_mode            *)
(***************************************************************************)
\* initialize_client accepting any token that is not empty
initialize_client_any_token(model, hf_model, confirmation, hf_token) ==
    IF model = None
    THEN [result |-> "AttributeError", model |-> model]
    ELSE LET m == IF hf_model = None THEN model ELSE hf_model
         IN  IF Contains(s_gpt, m)
             THEN IF Lower(confirmation) # s_y
                  THEN [result |-> "SystemExit", model |-> m]
                  ELSE [result |-> "ok", model |-> m]
             ELSE IF ~Truthy(hf_token)
                  THEN [result |-> "Exception", model |-> m]
                  ELSE [result |-> "ok", model |-> m]

\* Outcome of initialize_client for the model argument, the HF_MODEL entry of
\* the config file, the answer to the terms prompt and the token.
initialize_client(model, hf_model, confirmation, hf_token) ==
    IF model = None
    THEN [result |-> "AttributeError", model |-> model]
    ELSE LET m == IF hf_model = None THEN model ELSE hf_model
         IN  IF Contains(s_gpt, m)
             THEN IF Lower(confirmation) # s_y
                  THEN [result |-> "SystemExit", model |-> m]
                  ELSE [result |-> "ok", model |-> m]
             ELSE IF ~Truthy(hf_token)
                  THEN [result |-> "Exception", model |-> m]
                  ELSE IF SubSeq(hf_token, 1, Len(s_hf_)) # s_hf_
                       THEN [result |-> "Exception", model |-> m]
                       ELSE [result |-> "ok", model |-> m]

\* initialize_mode without the default of lines 152-153
initialize_mode_no_default(mode) ==
    [CODE_MODE |-> (mode = s_code),
     SCRIPT_MODE |-> (mode = s_script),
     COMMAND_MODE |-> (mode = s_command)]

initialize_mode(mode) ==
    LET script == (mode = s_script)
        command == (mode = s_command)
    IN  [CODE_MODE |-> IF ~script /\ ~command THEN TRUE ELSE (mode = s_code),
         SCRIPT_MODE |-> script,
         COMMAND_MODE |-> command]

initialize ==
    /\ pc = "initialize"
    /\ INTERPRETER_LANGUAGE' = IF Truthy(args.lang) THEN args.lang ELSE s_python
    /\ SAVE_CODE' = args.save_code
    /\ EXECUTE_CODE' = args.exec
    /\ \E hf_model \in ConfigModels, confirmation \in Answers :
          LET model == IF Truthy(args.model) THEN args.model ELSE None
              client == initialize_client(model, hf_model, confirmation,
                                          environment.HUGGINGFACE_API_KEY)
              modes == initialize_mode(args.mode)
          IN  IF ~environment.system_message_readable
              THEN /\ pc' = "aborted"
                   /\ exception' = "OSError"
                   /\ INTERPRRETER_MODEL' = model
                   /\ UNCHANGED <<CODE_MODE, SCRIPT_MODE, COMMAND_MODE>>
              ELSE IF client.result # "ok"
              THEN /\ pc' = "aborted"
                   /\ exception' = client.result
                   /\ INTERPRRETER_MODEL' = client.model
                   /\ UNCHANGED <<CODE_MODE, SCRIPT_MODE, COMMAND_MODE>>
              ELSE /\ pc' = "main"
                   /\ exception' = exception
                   /\ INTERPRRETER_MODEL' = client.model
                   /\ CODE_MODE' = modes.CODE_MODE
                   /\ SCRIPT_MODE' = modes.SCRIPT_MODE
                   /\ COMMAND_MODE' = modes.COMMAND_MODE
    /\ UNCHANGED <<args, environment, history, os_name, command_mode, reads, locals,
                   files, store, trace, current_time, saved>>

(***************************************************************************)
(* interpreter_main                                                        *)
(***************************************************************************)
\* time.localtime() as %H:%M:%S: the clock is one second further with every
\* task the user has typed
localtime == reads

interpreter_main ==
    /\ pc = "main"
    /\ os_name' = environment.platform
    /\ current_time' = localtime
    /\ command_mode' = IF SCRIPT_MODE THEN label_Script
                       ELSE IF COMMAND_MODE THEN label_Command ELSE label_Code
    /\ pc' = "read"
    /\ UNCHANGED <<exception, args, environment, SAVE_CODE, EXECUTE_CODE,
                   INTERPRETER_LANGUAGE, INTERPRRETER_MODEL, CODE_MODE, SCRIPT_MODE,
                   COMMAND_MODE, history, reads, locals, files, store, trace, saved>>

\* Each handler yields the prompt, self.history and self.INTERPRETER_LANGUAGE
\* as it leaves them.
handle_code_mode(t, os) ==
    LET p == code_prefix \o INTERPRETER_LANGUAGE \o code_middle \o t \o code_os \o os \o prompt_end
    IN  [prompt |-> p, history |-> Append(history, <<t, p>>), language |-> INTERPRETER_LANGUAGE]

\* handle_script_mode looking the OS name up without lower()
handle_script_mode_exact_case(t, os) ==
    LET lo == Lower(os)
        language == IF os = s_macos THEN s_applescript
                    ELSE IF os = s_linux THEN s_bash
                    ELSE IF os = s_windows THEN s_powershell ELSE s_python
        script_type == IF lo = s_macos THEN type_apple
                       ELSE IF lo = s_linux THEN type_bash
                       ELSE IF lo = s_windows THEN type_powershell ELSE type_script
        p == script_prefix \o script_type \o script_middle \o t \o script_os \o os \o prompt_end
    IN  [prompt |-> p, history |-> history, language |-> language]

\* lines 213-219
handle_script_mode(t, os) ==
    LET lo == Lower(os)
        language == IF lo = s_macos THEN s_applescript
                    ELSE IF lo = s_linux THEN s_bash
                    ELSE IF lo = s_windows THEN s_powershell ELSE s_python
        script_type == IF lo = s_macos THEN type_apple
                       ELSE IF lo = s_linux THEN type_bash
                       ELSE IF lo = s_windows THEN type_powershell ELSE type_script
        p == script_prefix \o script_type \o script_middle \o t \o script_os \o os \o prompt_end
    IN  [prompt |-> p, history |-> history, language |-> language]

handle_command_mode(t, os) ==
    LET p == command_prefix \o t \o script_os \o os \o prompt_end
    IN  [prompt |-> p, history |-> history, language |-> INTERPRETER_LANGUAGE]

handle_mode(t, os) ==
    IF CODE_MODE THEN handle_code_mode(t, os)
    ELSE IF SCRIPT_MODE THEN handle_script_mode(t, os)
    ELSE IF COMMAND_MODE THEN handle_command_mode(t, os)
    ELSE [prompt |-> None, history |-> history, language |-> INTERPRETER_LANGUAGE]

\* the test of line 273 without lower()
is_exit_case_sensitive(t) == t \in {s_exit, s_quit}

\* the test of line 273
is_exit(t) == Lower(t) \in {s_exit, s_quit}

\* lines 272-275: read one of the given tasks, leave the loop or build the
\* prompt
read_task_from(tasks) ==
    /\ pc = "read"
    /\ reads < MaxTurns
    /\ reads' = reads + 1
    /\ \E t \in tasks :
          /\ task' = t
          /\ IF is_exit(t)
             THEN /\ pc' = "done"
                  /\ UNCHANGED <<prompt, history, INTERPRETER_LANGUAGE>>
             ELSE LET h == handle_mode(t, os_name)
                  IN  /\ pc' = "clean"
                      /\ prompt' = h.prompt
                      /\ history' = h.history
                      /\ INTERPRETER_LANGUAGE' = h.language
    /\ output' = NoOutput
    /\ generated_output' = None
    /\ extracted_code' = None
    /\ code_output' = None
    /\ code_error' = None
    /\ trace' = <<>>
    /\ UNCHANGED <<exception, settings, INTERPRRETER_MODEL, files, store, saved>>

read_task == read_task_from(Tasks)

Names(list) == {list[i] : i \in DOMAIN list}

\* the loop of lines 59-65 leaving at the first removal that fails
remove_until_failure(present, failed) ==
    LET stop == {i \in DOMAIN files_to_remove : files_to_remove[i] \in failed}
        last == IF stop = {} THEN Len(files_to_remove)
                ELSE CHOOSE i \in stop : \A j \in stop : i <= j
        attempted == SubSeq(files_to_remove, 1, last)
    IN  [attempted |-> attempted, present |-> present, failed |-> failed,
         removed |-> (present \cap Names(attempted)) \ failed]

\* lines 58-65: the loop over files_to_remove, for the files present and
\* the files whose removal fails: every name is tried, a file that exists is
\* removed unless its removal fails
remove(present, failed) ==
    [attempted |-> files_to_remove, present |-> present, failed |-> failed,
     removed |-> (present \cap Names(files_to_remove)) \ failed]

\* lines 277-278 and 57-65: each stale file that exists is removed; a failed
\* removal is reported and the file stays
_clean_responses ==
    /\ pc = "clean"
    /\ \E failed \in SUBSET Names(files_to_remove) :
          /\ failed \subseteq files
          /\ files' = files \ remove(files, failed).removed
          /\ trace' = Append(trace, Event("clean", remove(files, failed)))
    /\ pc' = "generate"
    /\ UNCHANGED <<exception, settings, SAVE_CODE, INTERPRETER_LANGUAGE, INTERPRRETER_MODEL,
                   history, reads, locals, store, saved>>

\* lines 280-299: the directives appended to the prompt
augment(p, language) ==
    LET g == IF Contains(s_graph, Lower(p))
             THEN IF language = s_python THEN p \o graph_python
                  ELSE IF language = s_javascript THEN p \o graph_javascript ELSE p
             ELSE p
        c == IF Contains(s_chart, Lower(g)) \/ Contains(s_plot, Lower(g))
             THEN IF language = s_python THEN g \o chart_python
                  ELSE IF language = s_javascript THEN g \o chart_javascript ELSE g
             ELSE g
    IN  IF Contains(s_table, Lower(c))
        THEN IF language = s_python THEN c \o table_python
             ELSE IF language = s_javascript THEN c \o table_javascript ELSE c
        ELSE c

\* _extract_content yielding an empty content instead of raising
_extract_content_lenient(response) ==
    IF /\ "choices" \in DOMAIN response
       /\ Len(response.choices) >= 1
    THEN response.choices[1].message.content
    ELSE <<>>

\* lines 67-72: the content of a completion response, Raised when the
\* response does not have the expected fields
_extract_content(response) ==
    IF /\ "choices" \in DOMAIN response
       /\ Len(response.choices) >= 1
       /\ "message" \in DOMAIN response.choices[1]
       /\ "content" \in DOMAIN response.choices[1].message
    THEN response.choices[1].message.content
    ELSE Raised

\* lines 186-187: the model identifier handed to the completion call
completion_model(model) ==
    IF ~Contains(s_huggingface, model) /\ ~Contains(s_gpt, model)
    THEN s_huggingface \o model ELSE model

\* lines 280-302 and 172-206: augment the prompt, call the completion
\* transport, take the content out of the response
generate_text_from(responses) ==
    /\ pc = "generate"
    /\ prompt' = augment(prompt, INTERPRETER_LANGUAGE)
    /\ INTERPRRETER_MODEL' = completion_model(INTERPRRETER_MODEL)
    /\ trace' = Append(trace, Event("completion", <<>>))
    /\ \E response \in responses :
          LET generated_text == _extract_content(response)
          IN  /\ output' = response
              /\ IF generated_text = Raised
                 THEN /\ pc' = "crashed"
                      /\ exception' = "KeyError"
                      /\ UNCHANGED generated_output
                 ELSE /\ pc' = "extract"
                      /\ generated_output' = generated_text
                      /\ UNCHANGED exception
    /\ UNCHANGED <<settings, SAVE_CODE, INTERPRETER_LANGUAGE, history, reads, task,
                   extracted_code, code_output, code_error, files, store, saved>>

generate_text == generate_text_from(Responses)

\* CodeInterpreter.extract_code: the text between the first start separator
\* and the next end separator after it, None when either is missing
extract_code(text, start, end) ==
    LET s == Find(start, text, 0)
    IN  IF s = -1 THEN None
        ELSE LET from == s + Len(start)
                 e == Find(end, text, from)
             IN  IF e = -1 THEN None ELSE SubSeq(text, from + 1, e)

\* lines 316-322: the extension of the file the code is saved to, None when
\* the code is not saved
save_extension(language, save) ==
    IF language = s_javascript /\ save THEN ext_js
    ELSE IF language = s_python /\ save THEN ext_py
    ELSE None

\* the path of lines 317 and 321 with the time stamp of the moment of the save
save_path_at_save_time(language, save) ==
    [time |-> localtime, extension |-> save_extension(language, save)]

\* lines 317 and 321: the path output/code_generated_{current_time} with the
\* extension of the language
save_path(language, save) ==
    [time |-> current_time, extension |-> save_extension(language, save)]

\* CodeInterpreter.save_code: the file at the path holds the code, whatever
\* it held before; the other files of the directory stay
save_code(directory, path, code) ==
    {f \in directory : f.path # path} \cup {[path |-> path, code |-> code]}

\* lines 305-322: extract the code, log its first 50 characters (slicing None
\* raises TypeError), save it when there is code and saving is on
extract_and_save ==
    /\ pc = "extract"
    /\ LET code == extract_code(generated_output, start_sep, end_sep)
           ext == save_extension(INTERPRETER_LANGUAGE, SAVE_CODE)
           path == save_path(INTERPRETER_LANGUAGE, SAVE_CODE)
       IN  /\ extracted_code' = code
           /\ IF code = None
              THEN /\ pc' = "crashed"
                   /\ exception' = "TypeError"
                   /\ UNCHANGED <<trace, saved>>
              ELSE /\ UNCHANGED exception
                   /\ IF Truthy(code)
                      THEN /\ pc' = "execute"
                           /\ IF ext # None
                              THEN /\ trace' = Append(trace,
                                          Event("save_code", [path |-> path, code |-> code]))
                                   /\ saved' = save_code(saved, path, code)
                              ELSE UNCHANGED <<trace, saved>>
                      ELSE /\ pc' = "persist"
                           /\ UNCHANGED <<trace, saved>>
    /\ UNCHANGED <<settings, SAVE_CODE, INTERPRETER_LANGUAGE, INTERPRRETER_MODEL, history,
                   reads, task, prompt, output, generated_output, code_output, code_error, files, store>>

\* the test of line 235 on the first letter only
confirmed_first_letter(execute) ==
    Len(execute) >= 1 /\ LowerChar(execute[1]) = "y"

\* the test of line 235
confirmed(execute) == Lower(execute) = s_y

\* lines 238-243: the runner of the active mode
runner_of_mode ==
    IF SCRIPT_MODE THEN s_script
    ELSE IF COMMAND_MODE THEN s_command
    ELSE IF CODE_MODE THEN s_code ELSE None

\* what a call of a runner does: it returns (stdout, stderr) or raises
RunnerOutcomes ==
    {[raised |-> FALSE, out |-> r[1], err |-> r[2]] : r \in RunnerReturns}
        \cup {[raised |-> TRUE, out |-> None, err |-> e] : e \in RunnerExceptions}

\* lines 233-249 (called at line 325): ask for confirmation unless
\* auto-execute is on, run the code with the runner of the mode, turn an
\* exception of the runner into (None, text)
execute_code ==
    /\ pc = "execute"
    /\ \E answer \in Answers, r \in RunnerOutcomes, created \in CreatedFiles :
          LET execute == IF EXECUTE_CODE THEN s_y ELSE answer
              asked == IF EXECUTE_CODE THEN <<>> ELSE <<Event("input", answer)>>
          IN  IF confirmed(execute)
              THEN IF runner_of_mode # None
                   THEN /\ trace' = trace \o asked \o <<Event("runner", runner_of_mode),
                                                          Event("write", created)>>
                        /\ files' = files \cup created
                        /\ code_output' = r.out
                        /\ code_error' = r.err
                   ELSE /\ trace' = trace \o asked
                        /\ files' = files
                        /\ code_output' = <<>>
                        /\ code_error' = <<>>
              ELSE /\ trace' = trace \o asked
                   /\ files' = files
                   /\ code_output' = None
                   /\ code_error' = None
    /\ pc' = "recover"
    /\ UNCHANGED <<exception, settings, INTERPRETER_LANGUAGE, INTERPRRETER_MODEL, history,
                   reads, task, prompt, output, generated_output, extracted_code, store,
                   saved>>

\* the test of line 337 ignoring the letter case
is_missing_dependency_any_case(error) ==
    error # None /\ \E error_message \in error_messages :
                        Contains(Lower(error_message), Lower(error))

\* the test of line 337
is_missing_dependency(error) ==
    error # None /\ \E error_message \in error_messages : Contains(error_message, error)

\* install_package_on_error running the code again after the install
install_package_and_retry(error, language, package_name, installed) ==
    LET resolve == Event("extract_package_name",
                         [error |-> error, language |-> language, returned |-> package_name])
        install == Event("install_package",
                         [package_name |-> package_name, language |-> language])
    IN  IF ~is_missing_dependency(error)
        THEN [calls |-> <<>>, raised |-> FALSE]
        ELSE IF package_name = Raised
        THEN [calls |-> <<resolve>>, raised |-> TRUE]
        ELSE IF Truthy(package_name)
        THEN [calls |-> <<resolve, install, Event("runner", runner_of_mode)>>,
              raised |-> ~installed]
        ELSE [calls |-> <<resolve>>, raised |-> FALSE]

\* lines 335-341: the calls made to the package installer for the error of
\* the execution, and whether one of them raised
install_package_on_error(error, language, package_name, installed) ==
    LET resolve == Event("extract_package_name",
                         [error |-> error, language |-> language, returned |-> package_name])
        install == Event("install_package",
                         [package_name |-> package_name, language |-> language])
    IN  IF ~is_missing_dependency(error)
        THEN [calls |-> <<>>, raised |-> FALSE]
        ELSE IF package_name = Raised
        THEN [calls |-> <<resolve>>, raised |-> TRUE]
        ELSE IF Truthy(package_name)
        THEN [calls |-> <<resolve, install>>, raised |-> ~installed]
        ELSE [calls |-> <<resolve>>, raised |-> FALSE]

\* lines 47-52: the command that opens a file on the platform, None when
\* platform.system() is none of the three names
opener_command(platform) ==
    IF platform = os_Windows THEN <<"s", "t", "a", "r", "t">>
    ELSE IF platform = os_macOS THEN <<"o", "p", "e", "n">>
    ELSE IF platform = os_Linux THEN <<"x", "d", "g", "-", "o", "p", "e", "n">> ELSE None

\* lines 44-55 and 343-353: each of the three files that exists is opened
\* with the command of the platform, in the order of the calls; a failure of
\* the command is reported
_open_resource_file(present, unopened) ==
    LET existing == SelectSeq(files_to_open, LAMBDA f : f \in present)
    IN  [i \in 1..Len(existing) |->
            Event("open", [filename |-> existing[i],
                           command |-> opener_command(environment.platform),
                           failed |-> existing[i] \in unopened])]

\* line 355: the Turn handed to the history store
save_history_json ==
    [task |-> task, mode |-> command_mode, os |-> os_name,
     language |-> INTERPRETER_LANGUAGE, prompt |-> prompt,
     code |-> extracted_code, model |-> INTERPRRETER_MODEL]

\* lines 335-361, after the execution: package recovery, resource files,
\* persistence of the Turn; an exception of the installer reaches the handler
\* of line 357, which logs it and raises it again
finish_iteration ==
    /\ pc = "recover"
    /\ \E package_name \in ResolverResults, installed \in BOOLEAN,
          unopened \in SUBSET (files \cap Names(files_to_open)) :
          LET r == install_package_on_error(code_error, INTERPRETER_LANGUAGE,
                                            package_name, installed)
          IN  /\ opener_command(environment.platform) = None => unopened = {}
              /\ IF r.raised
                 THEN /\ trace' = trace \o r.calls
                      /\ pc' = "crashed"
                      /\ exception' = "Exception"
                      /\ UNCHANGED store
                 ELSE /\ trace' = trace \o r.calls \o _open_resource_file(files, unopened)
                                        \o <<Event("save_history_json", <<>>)>>
                      /\ store' = Append(store, save_history_json)
                      /\ pc' = "read"
                      /\ UNCHANGED exception
    /\ UNCHANGED <<settings, INTERPRETER_LANGUAGE, INTERPRRETER_MODEL, history, reads,
                   locals, files, saved>>

\* an iteration without code going back to the prompt without line 355
persist_without_code_unsaved ==
    /\ pc = "persist"
    /\ pc' = "read"
    /\ UNCHANGED <<exception, settings, INTERPRETER_LANGUAGE, INTERPRRETER_MODEL, history,
                   reads, locals, files, store, trace, saved>>

\* line 355 when no code was extracted
persist_without_code ==
    /\ pc = "persist"
    /\ store' = Append(store, save_history_json)
    /\ trace' = Append(trace, Event("save_history_json", <<>>))
    /\ pc' = "read"
    /\ UNCHANGED <<exception, settings, INTERPRETER_LANGUAGE, INTERPRRETER_MODEL, history,
                   reads, locals, files, saved>>

Next ==
    \/ initialize
    \/ interpreter_main
    \/ read_task
    \/ _clean_responses
    \/ generate_text
    \/ extract_and_save
    \/ execute_code
    \/ finish_iteration
    \/ persist_without_code

Spec == Init /\ [][Next]_vars

(***************************************************************************)
(* Prompt construction alone: every command line on every platform, tasks  *)
(* with the words of the augmentation, one iteration up to the completion  *)
(* call.                                                                   *)
(***************************************************************************)
InitPrompt ==
    Start(Arguments,
          [system_message_readable : {TRUE}, HUGGINGFACE_API_KEY : {token_good},
           platform : OSNames],
          {})

read_prompt_task == read_task_from(PromptTasks)

NextPrompt ==
    \/ initialize
    \/ interpreter_main
    \/ read_prompt_task
    \/ _clean_responses
    \/ generate_text

SpecPrompt == InitPrompt /\ [][NextPrompt]_vars

(***************************************************************************)
(* Startup alone: every command line in every environment, up to the       *)
(* reading of the tasks.                                                   *)
(***************************************************************************)
InitStartup == Start(Arguments, Environments, {})

NextStartup ==
    \/ initialize
    \/ interpreter_main
    \/ read_task

SpecStartup == InitStartup /\ [][NextStartup]_vars

(***************************************************************************)
(* Sessions in Script mode on every platform, with and without a language  *)
(* chosen on the command line, the code being saved.                       *)
(***************************************************************************)
InitScript ==
    Start([mode : {s_script}, lang : ArgLangs, model : {model_llama},
           save_code : {TRUE}, exec : BOOLEAN],
          [system_message_readable : {TRUE}, HUGGINGFACE_API_KEY : {token_good},
           platform : OSNames],
          {})

SpecScript == InitScript /\ [][Next]_vars

(***************************************************************************)
(* Sessions that save the code, in Code and Script mode on two platforms,  *)
(* the model answering with different code blocks.                         *)
(***************************************************************************)
InitSave ==
    Start([mode : {s_code, s_script}, lang : ArgLangs, model : {model_llama},
           save_code : {TRUE}, exec : {TRUE}],
          [system_message_readable : {TRUE}, HUGGINGFACE_API_KEY : {token_good},
           platform : {os_Linux, os_BSD}],
          {})

generate_save_text == generate_text_from(SaveResponses)

NextSave ==
    \/ initialize
    \/ interpreter_main
    \/ read_task
    \/ _clean_responses
    \/ generate_save_text
    \/ extract_and_save
    \/ execute_code
    \/ finish_iteration
    \/ persist_without_code

SpecSave == InitSave /\ [][NextSave]_vars

(***************************************************************************)
(* Properties                                                              *)
(***************************************************************************)
\* number of calls of one kind made in the current iteration
Count(op) == Cardinality({i \in DOMAIN trace : trace[i].op = op})

\* the tasks of the persisted Turns, in the order they were persisted
CompletedTasks == [i \in 1..Len(store) |-> store[i].task]

\* the tasks of the entries of self.history
HistoryTasks == [i \in 1..Len(history) |-> history[i][1]]

\* C1: whenever the loop is about to read a task, self.history has one entry
\* for each completed turn, in the order the tasks were entered, in every mode.
C1_HistoryHasOneEntryPerTurn ==
    pc = "read" => HistoryTasks = CompletedTasks

\* the runner was called in the current iteration and raised
RunnerRaised ==
    Count("runner") = 1 /\ code_output = None /\ code_error # None

\* C2: when the runner raises, execute_code yields (None, text of the
\* exception) and the session does not terminate in that iteration.
C2_RunnerExceptionDoesNotEndSession ==
    RunnerRaised => (code_error \in RunnerExceptions /\ pc # "crashed")

\* C3: when extraction yields None for the output of the completion call, the
\* iteration is not ended by an exception.
C3_AbsentCodeIsNotAnError ==
    (generated_output # None /\ extracted_code = None /\ pc # "extract")
        => pc # "crashed"

\* the current iteration called the package resolver
RecoveryStarted == Count("extract_package_name") >= 1

\* C4: a failure of the package resolver or of the installer does not end the
\* session.
C4_RecoveryFailureDoesNotEndSession ==
    RecoveryStarted => pc # "crashed"

\* C5: in one iteration the runner is called at most once, the installer at
\* most once, and no call of the runner follows a call of the installer.
C5_NoRetryAfterInstall ==
    /\ Count("runner") <= 1
    /\ Count("install_package") <= 1
    /\ \A i, j \in DOMAIN trace :
          (i < j /\ trace[i].op = "install_package") => trace[j].op # "runner"

\* C5 witness: an iteration that ran the code and installed a package has
\* ended and the next task can be read.
C5_Witness ==
    /\ pc = "read"
    /\ Count("runner") = 1
    /\ Count("install_package") = 1

\* the user was asked for confirmation in the current iteration and the
\* answer was not the letter y
Declined ==
    \E i \in DOMAIN trace : trace[i].op = "input" /\ trace[i].arg \notin {<<"y">>, <<"Y">>}

\* C6: the runner is called only with auto-execute on or after the answer y
\* or Y; with auto-execute on the user is not asked; after any other answer
\* the result is (None, None) and neither runner nor installer is called.
C6_ExecutionIsGated ==
    /\ Count("runner") >= 1 =>
          \/ EXECUTE_CODE
          \/ \E i \in DOMAIN trace :
                trace[i].op = "input" /\ trace[i].arg \in {<<"y">>, <<"Y">>}
    /\ EXECUTE_CODE => Count("input") = 0
    /\ Declined =>
          /\ code_output = None
          /\ code_error = None
          /\ Count("runner") = 0
          /\ Count("extract_package_name") = 0
          /\ Count("install_package") = 0

\* C6 witness: the user answered "yes", which is not y, and the iteration
\* ended without an execution.
C6_Witness ==
    /\ pc = "read"
    /\ Len(store) >= 1
    /\ ~EXECUTE_CODE
    /\ \E i \in DOMAIN trace : trace[i].op = "input" /\ trace[i].arg = ans_yes

\* the completion call of the current iteration returned a response from
\* which no content can be taken
Malformed == output \in MalformedResponses

\* C7: after a malformed completion response the session is over; in that
\* iteration nothing was extracted, saved, executed, installed, opened or
\* persisted, and nothing happens afterwards.
C7_MalformedResponseEndsSession ==
    /\ [](Malformed =>
            /\ pc = "crashed"
            /\ generated_output = None
            /\ extracted_code = None
            /\ code_output = None
            /\ code_error = None
            /\ \A i \in DOMAIN trace : trace[i].op \in {"clean", "completion"}
            /\ Len(store) = reads - 1)
    /\ [][Malformed => UNCHANGED vars]_vars

\* C7 witness: the second iteration of a session ended on a malformed
\* response.
C7_Witness ==
    /\ Malformed
    /\ pc = "crashed"
    /\ reads = 2
    /\ Len(store) = 1

\* C8: the output and the error of an execution are never both non-empty.
C8_NotBothOutputAndError ==
    ~(Truthy(code_output) /\ Truthy(code_error))

\* the three mode flags
ModeFlags == <<CODE_MODE, SCRIPT_MODE, COMMAND_MODE>>

\* C9: once the interpreter is constructed exactly one of the three modes is
\* active, whatever the mode argument, and the flags never change afterwards.
C9_ExactlyOneModeForever ==
    /\ [](pc \notin {"initialize", "aborted"} =>
            Cardinality({i \in 1..3 : ModeFlags[i]}) = 1)
    /\ [][pc \notin {"initialize", "aborted"} => ModeFlags' = ModeFlags]_vars

\* C9 witness: a session started with an unrecognised mode argument has
\* completed a turn in Code mode.
C9_Witness ==
    /\ args.mode = mode_chat
    /\ CODE_MODE
    /\ pc = "read"
    /\ Len(store) >= 1

\* the task just read is exit or quit in some letter case
ExitTyped == reads >= 1 /\ task \in {task_exit, task_Quit}

\* C10: on exit or quit the loop ends at once: nothing is called for that
\* input, no prompt is built, no history entry is added, no Turn is persisted
\* and no step follows.
C10_ExitEndsLoopAtOnce ==
    /\ [](ExitTyped =>
            /\ pc = "done"
            /\ trace = <<>>
            /\ output = NoOutput
            /\ Len(store) = reads - 1
            /\ Len(history) <= Len(store)
            /\ prompt = IF store = <<>> THEN None ELSE store[Len(store)].prompt)
    /\ [][pc = "done" => UNCHANGED vars]_vars

\* C10 witness: the user typed "Quit" after one completed turn.
C10_Witness ==
    /\ pc = "done"
    /\ task = task_Quit
    /\ Len(store) = 1

\* the prompt as the mode handler built it for the task of the iteration
BasePrompt == handle_mode(task, os_name).prompt

\* the prompt of the iteration went through the augmentation of lines 280-299
\* with python or javascript as the language
Augmented ==
    Count("completion") >= 1 /\ INTERPRETER_LANGUAGE \in {s_python, s_javascript}

GraphDirective == IF INTERPRETER_LANGUAGE = s_python THEN graph_python ELSE graph_javascript

ChartDirective == IF INTERPRETER_LANGUAGE = s_python THEN chart_python ELSE chart_javascript

TableDirective == IF INTERPRETER_LANGUAGE = s_python THEN table_python ELSE table_javascript

\* C11: for python and javascript each directive is in the prompt sent to the
\* model exactly when the prompt of the mode handler contains its keyword in
\* some letter case: graph; chart or plot; table.
C11_DirectiveIffKeyword ==
    Augmented =>
        /\ Contains(GraphDirective, prompt) <=> Contains(s_graph, Lower(BasePrompt))
        /\ Contains(ChartDirective, prompt) <=>
              (Contains(s_chart, Lower(BasePrompt)) \/ Contains(s_plot, Lower(BasePrompt)))
        /\ Contains(TableDirective, prompt) <=> Contains(s_table, Lower(BasePrompt))

\* the language the claim gives for an OS name
LanguageOfOS(os) ==
    CASE Lower(os) = <<"l", "i", "n", "u", "x">> -> <<"b", "a", "s", "h">>
      [] Lower(os) = <<"m", "a", "c", "o", "s">> -> s_applescript
      [] Lower(os) = <<"w", "i", "n", "d", "o", "w", "s">> -> s_powershell
      [] OTHER -> <<"p", "y", "t", "h", "o", "n">>

InTurn == pc \in {"clean", "generate", "extract", "execute", "recover", "persist"}

\* C12: in Script mode, once the prompt of a turn is built the language is
\* the one of the OS name (bash, applescript, powershell, else python)
\* whatever the user chose, and it is the language of the augmentation, of
\* the calls of the package installer and of the persisted Turn.
C12_ScriptLanguageFollowsOS ==
    SCRIPT_MODE =>
        /\ InTurn => INTERPRETER_LANGUAGE = LanguageOfOS(os_name)
        /\ InTurn /\ Count("completion") = 1 =>
              prompt = augment(BasePrompt, LanguageOfOS(os_name))
        /\ \A i \in DOMAIN trace :
              trace[i].op \in {"extract_package_name", "install_package"} =>
                 trace[i].arg.language = LanguageOfOS(os_name)
        /\ \A i \in DOMAIN store : store[i].language = LanguageOfOS(store[i].os)

\* a Turn was persisted on macOS after the installer was called, the user
\* having chosen javascript
C12_Witness ==
    /\ SCRIPT_MODE
    /\ args.lang = s_javascript
    /\ os_name = os_macOS
    /\ pc = "read"
    /\ Count("install_package") = 1
    /\ store # <<>>
    /\ store[Len(store)].language = s_applescript

SystemMessageBroken == ~environment.system_message_readable

\* the credential is missing or does not start with 'hf_'
CredentialBroken ==
    LET hf_token == environment.HUGGINGFACE_API_KEY
    IN  hf_token \in {None, <<>>} \/ SubSeq(hf_token, 1, 3) # <<"h", "f", "_">>

\* the model identifier of the command line contains 'gpt'
GptModel == args.model # None /\ Contains(<<"g", "p", "t">>, args.model)

\* C13 as stated: no task is ever read when the system message cannot be
\* read or the credential is missing or invalid, whatever the model
\* identifier.
C13_BrokenConfigurationNeverStartsLoop ==
    SystemMessageBroken \/ CredentialBroken => reads = 0

\* C13 amended: no task is ever read when the system message cannot be read,
\* or when the credential is missing or invalid and the model identifier
\* does not contain 'gpt' (for such an identifier the credential is not read).
C13_BrokenConfigurationNeverStartsLoopUnlessGpt ==
    SystemMessageBroken \/ (CredentialBroken /\ ~GptModel) => reads = 0

\* startup was refused for a token that does not start with 'hf_'
C13_Witness ==
    /\ ~SystemMessageBroken
    /\ environment.HUGGINGFACE_API_KEY = token_bad
    /\ args.model = model_llama
    /\ pc = "aborted"
    /\ exception = "Exception"

\* the error text of the execution holds one of the four substrings, in
\* this letter case
DependencyError ==
    /\ code_error # None
    /\ \/ Contains(<<"M", "o", "d", "u", "l", "e", "N", "o", "t", "F", "o", "u", "n", "d">>, code_error)
       \/ Contains(<<"I", "m", "p", "o", "r", "t", "E", "r", "r", "o", "r">>, code_error)
       \/ Contains(<<"N", "o", " ", "m", "o", "d", "u", "l", "e", " ", "n", "a", "m", "e", "d">>, code_error)
       \/ Contains(<<"C", "a", "n", "n", "o", "t", " ", "f", "i", "n", "d", " ", "m", "o", "d", "u", "l", "e">>, code_error)

\* C14: the resolver and the installer are called in a turn only after a
\* runner ran in that turn and its error text is present and contains
\* 'ModuleNotFound', 'ImportError', 'No module named' or 'Cannot find module'
\* in this letter case; the installer is called only right after a resolver
\* call that returned a name, with that name and the active language.
C14_InstallerOnlyOnDependencyError ==
    \A i \in DOMAIN trace :
        /\ trace[i].op \in {"extract_package_name", "install_package"} =>
              /\ \E j \in 1..(i - 1) : trace[j].op = "runner"
              /\ DependencyError
        /\ trace[i].op = "extract_package_name" =>
              trace[i].arg.error = code_error /\ trace[i].arg.language = INTERPRETER_LANGUAGE
        /\ trace[i].op = "install_package" =>
              /\ i > 1
              /\ trace[i - 1].op = "extract_package_name"
              /\ trace[i - 1].arg.returned \notin {None, <<>>, Raised}
              /\ trace[i].arg = [package_name |-> trace[i - 1].arg.returned,
                                 language |-> INTERPRETER_LANGUAGE]

\* the installer was called with the name the resolver returned, and the
\* turn was completed
C14_Witness ==
    /\ pc = "read"
    /\ \E i \in DOMAIN trace :
          /\ trace[i].op = "install_package"
          /\ trace[i].arg.package_name = pkg_x
    /\ \E i \in DOMAIN trace :
          /\ trace[i].op = "extract_package_name"
          /\ trace[i].arg.returned = pkg_x

\* the cleanup of the turn, once it has run
Cleanup == trace[1].arg

\* C15: in every turn whose task is not exit or quit, whatever the mode and
\* the flags, the removal of graph.png, chart.png and table.md is attempted
\* after the prompt is built and before the completion call; a file that
\* does not exist is left alone without an error, and a removal that fails
\* neither stops the attempts on the other files nor ends the turn.
C15_CleanupBeforeCompletion ==
    /\ pc \in {"generate", "extract", "execute", "recover", "persist"} =>
          /\ prompt # None
          /\ trace[1].op = "clean"
          /\ \A i \in DOMAIN trace : trace[i].op = "completion" => i > 1
          /\ Cleanup.attempted = <<graph_png, chart_png, table_md>>
          /\ Cleanup.removed = (Cleanup.present \cap {graph_png, chart_png, table_md})
                                  \ Cleanup.failed
          /\ Cleanup.failed \subseteq Cleanup.present
    /\ pc = "generate" =>
          /\ exception = ""
          /\ files = Cleanup.present \ Cleanup.removed
    /\ pc = "clean" => trace = <<>>

\* in Command mode without the flags the removal of chart.png, left by the
\* turn before, failed; table.md was tried all the same and the turn went
\* on to the completion call
C15_Witness ==
    /\ pc = "extract"
    /\ COMMAND_MODE /\ ~SAVE_CODE /\ ~EXECUTE_CODE
    /\ Cleanup.present = {chart_png}
    /\ Cleanup.failed = {chart_png}
    /\ Cleanup.attempted[3] = table_md
    /\ files = {chart_png}

\* the resource files that exist, in the order of the claim
Existing == SelectSeq(<<graph_png, chart_png, table_md>>, LAMBDA f : f \in files)

\* the files handed to the resource opener in this turn, in the order of the calls
Opened ==
    LET calls == SelectSeq(trace, LAMBDA e : e.op = "open")
    IN  [i \in 1..Len(calls) |-> calls[i].arg.filename]

\* a turn in which code was extracted has ended
TurnWithCodeEnded == extracted_code \notin {None, <<>>} /\ pc \in {"read", "crashed"}

\* C16: in every turn with code present, after the execution step each of
\* graph.png, chart.png and table.md that exists is handed to the resource
\* opener, in that order; a failed opening does not keep the other files from
\* being tried, nor the Turn from being persisted, nor does it end the session.
C16_ExistingFilesAreOpened ==
    TurnWithCodeEnded =>
        /\ Opened = Existing
        /\ \A i, j \in DOMAIN trace :
              trace[i].op = "open" /\ trace[j].op \in {"input", "runner"} => j < i
        /\ pc = "read"
        /\ Count("save_history_json") = 1

\* C17: in every turn where code is present, the save flag is set and the
\* runner is called, the code was saved to a file before the runner was
\* called, in every mode and for every active language.
C17_SavedBeforeExecution ==
    \A k \in DOMAIN trace :
        extracted_code \notin {None, <<>>} /\ SAVE_CODE /\ trace[k].op = "runner" =>
            \E j \in 1..(k - 1) : trace[j].op = "save_code"

\* an iteration ends and the loop goes back to the prompt
IterationEnds == pc \in {"recover", "persist"} /\ pc' = "read"

\* C18: every iteration that ends without exit, quit or exception persists
\* exactly one Turn, that of its task, as its last step, also when no code
\* was extracted or the user declined; nothing else persists a Turn; so
\* after N such iterations the store holds N Turns in the order of the tasks.
C18_OneTurnPerIteration ==
    [][/\ IterationEnds =>
             /\ Len(store') = Len(store) + 1
             /\ SubSeq(store', 1, Len(store)) = store
             /\ store'[Len(store')].task = task
             /\ Len(store') = reads
             /\ trace'[Len(trace')].op = "save_history_json"
             /\ Cardinality({i \in DOMAIN trace' : trace'[i].op = "save_history_json"}) = 1
       /\ ~IterationEnds => store' = store]_vars

\* two iterations ended: the first without code, the second with the user
\* declining the execution
C18_Witness ==
    /\ pc = "read"
    /\ Len(store) = 2
    /\ store[1].code = <<>>
    /\ store[2].code # <<>>
    /\ Declined
    /\ trace[Len(trace)].op = "save_history_json"

\* C19: a resource file is opened in a turn only if the code executed in that
\* turn wrote it after the cleanup; a file left by an earlier turn is never
\* opened, not when the user declined the execution and not when the removal
\* of the stale file failed.
C19_OnlyFilesOfTheTurnAreOpened ==
    \A i \in DOMAIN trace :
        trace[i].op = "open" =>
            \E j \in 1..(i - 1) : trace[j].op = "write" /\ trace[i].arg.filename \in trace[j].arg

\* the file names the directives of the prompt ask the code to write
DirectiveFiles ==
    {f \in {graph_png, chart_png, table_md,
            <<"t", "a", "b", "l", "e", ".", "h", "t", "m", "l">>} : Contains(f, prompt)}

\* C20: every file name a directive can ask the code to write is among the
\* names the cleanup removes before the generation and among the names the
\* session tries to open after the execution.
C20_DirectiveFilesAreCleanedAndOpened ==
    Count("completion") = 1 =>
        \A f \in DirectiveFiles :
            /\ f \in Names(trace[1].arg.attempted)
            /\ f \in Names(files_to_open)

\* the extension the claim gives for a language
ExtensionOf(language) ==
    CASE language = <<"j", "a", "v", "a", "s", "c", "r", "i", "p", "t">> -> <<".", "j", "s">>
      [] language = <<"p", "y", "t", "h", "o", "n">> -> <<".", "p", "y">>
      [] OTHER -> None

\* the language that is active when the loop starts, before a task is read
LanguageAtLoopStart == IF args.lang \in {None, <<>>} THEN s_python ELSE args.lang

\* the saves of the current turn
Saves == SelectSeq(trace, LAMBDA e : e.op = "save_code")

\* the code of the latest turn that saved code
LatestSavedCode ==
    IF Saves # <<>> THEN Saves[Len(Saves)].arg.code
    ELSE LET with_code == {i \in DOMAIN store : store[i].code \notin {None, <<>>}}
         IN  store[CHOOSE i \in with_code : \A j \in with_code : j <= i].code

\* all the saves of the session went to one path, which holds the code of
\* the latest of them
OnePathWithLatestCode ==
    /\ Cardinality({f.path : f \in saved}) <= 1
    /\ saved # {} => saved = {[path |-> (CHOOSE f \in saved : TRUE).path,
                               code |-> LatestSavedCode]}

\* C21 as stated: the path that code is saved to is fixed before the first
\* task is read, from the time stamp taken at the start of the loop and the
\* extension of the language active then; it is the same in every turn, so
\* all the saves went to one path and it holds the code of the latest.
C21_SavePathFixedAtLoopStart ==
    /\ \A i \in DOMAIN Saves :
          Saves[i].arg.path = [time |-> 0, extension |-> ExtensionOf(LanguageAtLoopStart)]
    /\ \A f \in saved :
          f.path = [time |-> 0, extension |-> ExtensionOf(LanguageAtLoopStart)]
    /\ OnePathWithLatestCode

\* C21 amended: the time stamp of the path is taken once, at the start of the
\* loop; the extension is that of the language active in the turn, which in
\* Script mode is the language of the OS name and not the one active when
\* the loop started; the path is the same in every turn, so all the saves
\* went to one path and it holds the code of the latest.
C21_SavePathFixedForSession ==
    /\ pc \notin {"initialize", "main", "aborted"} => current_time = 0
    /\ \A i \in DOMAIN Saves :
          /\ Saves[i].arg.path = [time |-> 0, extension |-> ExtensionOf(INTERPRETER_LANGUAGE)]
          /\ Saves[i].arg.code = extracted_code
    /\ \A f \in saved :
          f.path = [time |-> 0, extension |-> ExtensionOf(INTERPRETER_LANGUAGE)]
    /\ OnePathWithLatestCode

\* the second turn saved a code other than that of the first turn, and the
\* file holds the code of the second turn only
C21_Witness ==
    /\ reads = 2
    /\ pc = "read"
    /\ Len(store) = 2
    /\ store[1].code = <<"x">>
    /\ store[2].code = <<"y">>
    /\ Len(Saves) = 1
    /\ saved = {[path |-> [time |-> 0, extension |-> ext_py], code |-> <<"y">>]}

====
